---- MODULE Spec2Model ----
(***************************************************************************)
(* Model of src/modules/aifn/digrams/DiagramsModal.tsx: the Auto-Diagram   *)
(* dialog.  One dialog instance, its React state, the streaming calls it   *)
(* issues, and the conversation store's append log.                        *)
(*                                                                         *)
(* Texts are sequences of lexical tokens.  The tokens are chosen so that   *)
(* every occurrence of one of hotFixDiagramCode's patterns in the          *)
(* concatenated string starts and ends on a token boundary:                *)
(*   "@start" "@endmindmap" "@enduml" "\n" FENCE (three backticks) and     *)
(*   "x" (any other text, free of at-signs, backticks and newlines).       *)
(* A nullable value (string | null) is a sequence of length 0 (null) or 1. *)
(***************************************************************************)
EXTENDS Integers, Sequences, FiniteSets, TLC

\* ---------------------------------------------------------------- bounds
MaxAttempts == 3
MaxAbortCalls == 2
MaxLen == 5

\* ------------------------------------------------------------- constants
None == <<>>
Some(v) == <<v>>

Loading == <<"Loading...">>
DIAGRAM_ACTOR_PREFIX == "diagram"
ErrInvalid == "Invalid diagram Type, Language, Generator, or conversation."
ErrNoSystem == "No System message in this conversation"
ErrInterrupted == "Interrupted."
ErrNothing == "Nothing to add to the conversation."

\* the code fence, three backticks
Fence == "FENCE"
NL == "\n"
Tokens == {"@start", "@endmindmap", "@enduml", NL, Fence, "x"}

\* what the streaming service delivers as text-so-far in the dialog's runs
SampleTexts ==
  { <<>>, <<"x">>, <<"@start", "x", NL, "@enduml">> }

\* rejections of the streaming service: a cancellation and another failure
AbortError == [name |-> "AbortError", message |-> "The user aborted a request."]
OtherError == [name |-> "Error", message |-> "boom"]
Errors == {AbortError, OtherError}

DiagramTypes == {"auto", "mind"}
DiagramLanguages == {"plantuml", "mermaid"}
Llms == {"llmA", "llmB"}
Instructions == {"", "as state"}

\* ---------------------------------------------------------------- state
VARIABLES
  showOptions,        \* line 54
  diagramCode,        \* line 55, nullable text
  diagramType,        \* line 56, nullable
  diagramLanguage,    \* line 57, nullable
  customInstruction,  \* line 58
  errorMessage,       \* line 59, nullable
  abortController,    \* line 60, nullable id of a streaming call's controller
  diagramLlm,         \* line 65, nullable
  conversation,       \* the store's conversation (line 78)
  calls,              \* the streaming calls in flight, by id
  issued,             \* streaming calls issued so far (line 97)
  finalized,          \* runs of the finally block so far (lines 103-106)
  appended,           \* messages handed to the store's appendMessage (line 130)
  closeCalls,         \* invocations of props.onClose (line 131)
  mounted,            \* the component is mounted
  codeLlm,            \* generator of the call that last wrote diagramCode
  lastOp              \* the handler or callback that ran last

vars == << showOptions, diagramCode, diagramType, diagramLanguage,
           customInstruction, errorMessage, abortController, diagramLlm,
           conversation, calls, issued, finalized, appended, closeCalls, mounted, codeLlm, lastOp >>

selection == << showOptions, diagramType, diagramLanguage, customInstruction, diagramLlm >>
store == << conversation, appended, closeCalls >>

\* --------------------------------------------------- hotFixDiagramCode
RECURSIVE replaceAll(_, _, _)
replaceAll(s, pat, rep) ==
  IF Len(s) < Len(pat) THEN s
  ELSE IF SubSeq(s, 1, Len(pat)) = pat
       THEN rep \o replaceAll(SubSeq(s, Len(pat) + 1, Len(s)), pat, rep)
       ELSE <<Head(s)>> \o replaceAll(Tail(s), pat, rep)

startsWith(s, tok) == Len(s) > 0 /\ s[1] = tok

\* (variant: the fence is added after the substitutions instead of before)
hotFixWrapsLast(llmCode) ==
  LET fixed == replaceAll(replaceAll(llmCode, <<"@endmindmap", NL, "@enduml">>, <<"@endmindmap">>),
                          <<Fence, NL, Fence>>, <<Fence>>)
  IN IF startsWith(llmCode, "@start") THEN <<Fence, NL>> \o fixed \o <<NL, Fence>> ELSE fixed

hotFixDiagramCode(llmCode) ==
  LET wrapped == IF startsWith(llmCode, "@start")
                 THEN <<Fence, NL>> \o llmCode \o <<NL, Fence>>
                 ELSE llmCode
  IN replaceAll(replaceAll(wrapped, <<"@endmindmap", NL, "@enduml">>, <<"@endmindmap">>),
                <<Fence, NL, Fence>>, <<Fence>>)

\* JavaScript truthiness of a nullable text (null and '' are falsy)
Truthy(v) == v # None /\ v[1] # <<>>

\* ------------------------------------------------------------ helpers
\* DIAGRAM_ACTOR_PREFIX + (diagramLlm?.id ? '-' + diagramLlm.id : ''), as its parts
OriginTag(llm) ==
  IF llm # None THEN <<DIAGRAM_ACTOR_PREFIX, "-", llm[1]>> ELSE <<DIAGRAM_ACTOR_PREFIX>>

\* createDMessage('assistant', text) with its originLLM set; text is the
\* nullable state value as handed over
DiagramMessage(text, llm) ==
  [role |-> "assistant", text |-> text, originLLM |-> OriginTag(llm)]

\* conversation.messages[0], or null
SystemMessage ==
  IF conversation # None /\ Len(conversation[1]) > 0 THEN Some(conversation[1][1]) ELSE None

\* the store's appendMessage on the conversation named by conversationId
appendMessage(msg) ==
  /\ appended' = Append(appended, msg)
  /\ conversation' = IF conversation = None THEN None
                     ELSE Some(Append(conversation[1], msg.role))

\* a call is in calls from the moment it is issued until it settles
Running(id) == id \in DOMAIN calls
InFlight == DOMAIN calls
CallIds == 1..(MaxAttempts + 1)

Op(name, id, arg) == [op |-> name, id |-> id, arg |-> arg]

\* AbortController.abort() on the controller of call id
\* (a settled call has no observer left: aborting its controller changes nothing)
abort(cs, id) == IF id \in DOMAIN cs THEN [cs EXCEPT ![id].abortCalls = @ + 1] ELSE cs
Aborted(id) == calls[id].abortCalls > 0

\* ------------------------------------------------------------- initial
InitCommon ==
  /\ showOptions = TRUE
  /\ diagramCode = None
  /\ customInstruction = ""
  /\ errorMessage = None
  /\ abortController = None
  /\ diagramLlm \in {None} \cup {Some(l) : l \in Llms}
  /\ conversation \in {None, Some(<<>>), Some(<<"user">>), Some(<<"system">>)}
  /\ calls = <<>>
  /\ issued = 0
  /\ finalized = 0
  /\ appended = <<>>
  /\ closeCalls = 0
  /\ mounted = TRUE
  /\ codeLlm = None
  /\ lastOp = Op("init", 0, "")

\* the dialog as mounted: useFormRadio's initial values 'auto' and 'plantuml'
Init ==
  /\ InitCommon
  /\ diagramType = Some("auto")
  /\ diagramLanguage = Some("plantuml")

\* ---------------------------------------------------- handleGenerateNew
\* A handler reads the state of the latest render: the updates of one event
\* or callback are flushed before the next one is dispatched, so each handler
\* and each callback is one step.  After the unmount the setters do nothing.
\* (variant: the guard of line 75 left out)
GenerateNeverRefused == FALSE

\* line 75: if (abortController) return;
GenerateRefused == abortController # None

\* line 79: !diagramType || !diagramLanguage || !diagramLlm || !conversation
InvalidSelection ==
  diagramType = None \/ diagramLanguage = None \/ diagramLlm = None \/ conversation = None

\* (variant: only the presence of a first message is tested, not its role)
NoSystemMessagePresenceOnly == SystemMessage = None

\* line 83: systemMessage?.role !== 'system'
NoSystemMessage == SystemMessage # Some("system")

\* lines 88-97: the closure of one attempt and the streaming call it issues.
\* The prompt is handed to the service by value and never read back.
NewCall ==
  [ llm |-> diagramLlm[1],  \* diagramLlm.id, the generator the call is issued to
    local |-> Loading,      \* let diagramCode = 'Loading...'
    sent |-> None,          \* the last non-empty textSoFar the service delivered
    abortCalls |-> 0 ]      \* abort() invocations on stepAbortController

\* line 91: new AbortController(), named by an id no call in flight has
FreshId == CHOOSE id \in CallIds : id \notin DOMAIN calls /\ \A j \in 1..(id - 1) : j \in DOMAIN calls

\* (variant: a started attempt leaves the message of the earlier one)
StartKeepsMessage == errorMessage

\* line 86: setErrorMessage(null)
StartMessage == None

handleGenerateNew ==
  IF GenerateRefused
  THEN /\ lastOp' = Op("generate", 0, "refused")
       /\ UNCHANGED << diagramCode, errorMessage, abortController, calls, issued, finalized,
                       codeLlm, selection, store, mounted >>
  ELSE IF InvalidSelection
  THEN /\ errorMessage' = Some(ErrInvalid)
       /\ lastOp' = Op("generate", 0, "invalid")
       /\ UNCHANGED << diagramCode, abortController, calls, issued, finalized, codeLlm,
                       selection, store, mounted >>
  ELSE IF NoSystemMessage
  THEN /\ errorMessage' = Some(ErrNoSystem)
       /\ lastOp' = Op("generate", 0, "nosystem")
       /\ UNCHANGED << diagramCode, abortController, calls, issued, finalized, codeLlm,
                       selection, store, mounted >>
  ELSE /\ issued < MaxAttempts
       /\ errorMessage' = StartMessage
       /\ diagramCode' = Some(Loading)
       /\ abortController' = Some(FreshId)
       /\ calls' = (FreshId :> NewCall) @@ calls
       /\ issued' = issued + 1
       /\ codeLlm' = diagramLlm
       /\ lastOp' = Op("generate", FreshId, IF errorMessage # None THEN "recovered" ELSE "started")
       /\ UNCHANGED << finalized, selection, store, mounted >>

\* (variant: the delivery is taken for a delta and appended)
OnUpdateAppends(id, textSoFar) ==
  /\ Running(id)
  /\ IF textSoFar # <<>>
     THEN /\ calls' = [calls EXCEPT ![id].local = @ \o textSoFar, ![id].sent = Some(textSoFar)]
          /\ IF mounted
             THEN diagramCode' = Some(calls[id].local \o textSoFar) /\ codeLlm' = Some(calls[id].llm)
             ELSE UNCHANGED << diagramCode, codeLlm >>
     ELSE UNCHANGED << calls, diagramCode, codeLlm >>
  /\ lastOp' = Op("update", id, IF textSoFar # <<>> THEN "text" ELSE "empty")
  /\ UNCHANGED << errorMessage, abortController, issued, finalized, selection, store, mounted >>

\* line 98: ({ textSoFar }) => textSoFar && setDiagramCode(diagramCode = textSoFar)
OnUpdate(id, textSoFar) ==
  /\ Running(id)
  /\ IF textSoFar # <<>>
     THEN /\ calls' = [calls EXCEPT ![id].local = textSoFar, ![id].sent = Some(textSoFar)]
          /\ IF mounted
             THEN diagramCode' = Some(textSoFar) /\ codeLlm' = Some(calls[id].llm)
             ELSE UNCHANGED << diagramCode, codeLlm >>
     ELSE UNCHANGED << calls, diagramCode, codeLlm >>
  /\ lastOp' = Op("update", id, IF textSoFar # <<>> THEN "text" ELSE "empty")
  /\ UNCHANGED << errorMessage, abortController, issued, finalized, selection, store, mounted >>

\* (variant: every rejection is reported with its own message)
CatchMessageVerbatim(error) == Some(error.message)

\* line 102: error?.name !== 'AbortError' ? error?.message : 'Interrupted.'
CatchMessage(error) ==
  IF error.name # "AbortError" THEN Some(error.message) ELSE Some(ErrInterrupted)

\* line 104: hotFixDiagramCode(diagramCode), of the closure's variable
FinalCode(id) == Some(hotFixDiagramCode(calls[id].local))

\* (variant: the cleanup forgets to abort)
EffectCleanupNoAbort(cs, old) == cs

\* lines 112-119, as the effect's cleanup runs when abortController changes
\* from old: the controller it closed over is aborted
EffectCleanup(cs, old) ==
  IF old # None THEN abort(cs, old[1]) ELSE cs

\* the call id has settled
Settle(cs, id) == [j \in DOMAIN cs \ {id} |-> cs[j]]

\* (variant: finally stores the result and leaves the handle set)
FinallyKeepsHandle(id, message) ==
  /\ finalized' = finalized + 1
  /\ calls' = Settle(calls, id)
  /\ IF mounted
     THEN /\ diagramCode' = FinalCode(id)
          /\ codeLlm' = Some(calls[id].llm)
          /\ errorMessage' = message
     ELSE UNCHANGED << diagramCode, codeLlm, errorMessage >>
  /\ UNCHANGED << abortController, issued, selection, store, mounted >>

\* lines 103-106: finally; the render that follows runs the effect's cleanup
Finally(id, message) ==
  /\ finalized' = finalized + 1
  /\ IF mounted
     THEN /\ diagramCode' = FinalCode(id)
          /\ codeLlm' = Some(calls[id].llm)
          /\ abortController' = None
          /\ errorMessage' = message
          /\ calls' = EffectCleanup(Settle(calls, id), abortController)
     ELSE /\ calls' = Settle(calls, id)
          /\ UNCHANGED << diagramCode, codeLlm, abortController, errorMessage >>
  /\ UNCHANGED << issued, selection, store, mounted >>

\* (variant: a finished generation clears the custom instruction)
ResolveClearsInstruction(id) ==
  /\ Running(id)
  /\ finalized' = finalized + 1
  /\ IF mounted
     THEN /\ diagramCode' = FinalCode(id)
          /\ codeLlm' = Some(calls[id].llm)
          /\ abortController' = None
          /\ customInstruction' = ""
          /\ calls' = EffectCleanup(Settle(calls, id), abortController)
     ELSE /\ calls' = Settle(calls, id)
          /\ UNCHANGED << diagramCode, codeLlm, abortController, customInstruction >>
  /\ lastOp' = Op("resolve", id, "")
  /\ UNCHANGED << errorMessage, issued, showOptions, diagramType, diagramLanguage, diagramLlm,
                  store, mounted >>

\* the streaming call resolves: try falls through to finally
Resolve(id) ==
  /\ Running(id)
  /\ Finally(id, errorMessage)
  /\ lastOp' = Op("resolve", id, "")

\* (variant: the finalization sits after the await inside try, so a rejection
\* runs the catch block alone)
RejectSkipsFinally(id, error) ==
  /\ Running(id)
  /\ error.name = "AbortError" => Aborted(id)
  /\ calls' = Settle(calls, id)
  /\ IF mounted
     THEN diagramCode' = None /\ errorMessage' = CatchMessage(error)
     ELSE UNCHANGED << diagramCode, errorMessage >>
  /\ lastOp' = Op("reject", id, error.name)
  /\ UNCHANGED << abortController, codeLlm, issued, finalized, selection, store, mounted >>

\* the streaming call rejects: catch (lines 100-102), then finally.  The catch
\* block's setDiagramCode(null) is overwritten by finally's setDiagramCode in
\* the same turn, so no render between them is open to another event.
\* An AbortError is raised only for a signal that was aborted.
Reject(id, error) ==
  /\ Running(id)
  /\ error.name = "AbortError" => Aborted(id)
  /\ Finally(id, CatchMessage(error))
  /\ lastOp' = Op("reject", id, error.name)

\* ------------------------------------------------- handleInsertAndClose
\* (variant: the test of line 123 never fires)
NothingToAddNever == FALSE

\* line 123: if (!diagramCode)
NothingToAdd == ~Truthy(diagramCode)

handleInsertAndClose ==
  IF NothingToAdd
  THEN /\ errorMessage' = Some(ErrNothing)
       /\ lastOp' = Op("insert", 0, "nothing")
       /\ UNCHANGED << diagramCode, abortController, calls, issued, finalized, codeLlm,
                       selection, store, mounted >>
  ELSE /\ appendMessage(DiagramMessage(diagramCode, diagramLlm))
       /\ closeCalls' = closeCalls + 1
       /\ lastOp' = Op("insert", 0, "appended")
       /\ UNCHANGED << diagramCode, errorMessage, abortController, calls, issued, finalized,
                       codeLlm, selection, mounted >>

\* ------------------------------------------------------------ rendering
\* (variant: the control ignores the cancel handle)
AddToChatDisabledIgnoresController == ~Truthy(diagramCode)

\* line 208: disabled={!diagramCode || !!abortController}
AddToChatDisabled == ~Truthy(diagramCode) \/ abortController # None

\* line 222: disabled={!diagramLlm}
GenerateDisabled == diagramLlm = None

\* line 178: the progress indicator
ShowsProgress == ~showOptions /\ abortController # None

\* (variant: the preview is shown whenever there is content)
ShowsPreviewWhenever == Truthy(diagramCode)

\* line 182: the result preview
ShowsPreview == Truthy(diagramCode) /\ (abortController = None \/ showOptions)

\* ------------------------------------------------------------ user events
\* props.onClose is the parent's: once it was called the parent takes the
\* dialog down, and the dialog receives no further user event
Interactive == mounted /\ closeCalls = 0

\* line 208: Add To Chat
ClickAddToChat ==
  /\ Interactive
  /\ ~AddToChatDisabled
  /\ handleInsertAndClose

\* line 223, no controller: Generate / Regenerate
ClickGenerate ==
  /\ Interactive
  /\ ~GenerateDisabled
  /\ abortController = None
  /\ handleGenerateNew

\* line 223, with a controller: Stop calls abortController.abort()
ClickStop ==
  /\ Interactive
  /\ ~GenerateDisabled
  /\ abortController # None
  /\ abortController[1] \in DOMAIN calls => calls[abortController[1]].abortCalls < MaxAbortCalls
  /\ calls' = abort(calls, abortController[1])
  /\ lastOp' = Op("stop", abortController[1], "")
  /\ UNCHANGED << diagramCode, errorMessage, abortController, issued, finalized, codeLlm,
                  selection, store, mounted >>

\* line 143: the title's toggle
ToggleOptions ==
  /\ Interactive
  /\ showOptions' = ~showOptions
  /\ lastOp' = Op("toggle", 0, "")
  /\ UNCHANGED << diagramCode, diagramType, diagramLanguage, customInstruction, errorMessage,
                  abortController, diagramLlm, calls, issued, finalized, codeLlm, store, mounted >>

\* lines 154-174: the option controls, rendered while showOptions
SelectDiagramType(t) ==
  /\ Interactive /\ showOptions
  /\ diagramType' = Some(t)
  /\ lastOp' = Op("select", 0, "")
  /\ UNCHANGED << showOptions, diagramCode, diagramLanguage, customInstruction, errorMessage,
                  abortController, diagramLlm, calls, issued, finalized, codeLlm, store, mounted >>

SelectDiagramLanguage(l) ==
  /\ Interactive /\ showOptions
  /\ diagramLanguage' = Some(l)
  /\ lastOp' = Op("select", 0, "")
  /\ UNCHANGED << showOptions, diagramCode, diagramType, customInstruction, errorMessage,
                  abortController, diagramLlm, calls, issued, finalized, codeLlm, store, mounted >>

SelectDiagramLlm(l) ==
  /\ Interactive /\ showOptions
  /\ diagramLlm' = Some(l)
  /\ lastOp' = Op("select", 0, "")
  /\ UNCHANGED << showOptions, diagramCode, diagramType, diagramLanguage, customInstruction,
                  errorMessage, abortController, calls, issued, finalized, codeLlm, store, mounted >>

\* line 170: setCustomInstruction(e.target.value)
EditCustomInstruction(text) ==
  /\ Interactive /\ showOptions
  /\ customInstruction' = text
  /\ lastOp' = Op("select", 0, "")
  /\ UNCHANGED << showOptions, diagramCode, diagramType, diagramLanguage, errorMessage,
                  abortController, diagramLlm, calls, issued, finalized, codeLlm, store, mounted >>

\* lines 112-119: unmount runs the effect's cleanup; the state is gone after it
Unmount ==
  /\ mounted
  /\ mounted' = FALSE
  /\ calls' = EffectCleanup(calls, abortController)
  /\ lastOp' = Op("unmount", IF abortController # None THEN abortController[1] ELSE 0, "")
  /\ UNCHANGED << diagramCode, errorMessage, abortController, issued, finalized, codeLlm,
                  selection, store >>

\* ------------------------------------------------------ streaming service
StreamUpdate == \E id \in DOMAIN calls : \E t \in SampleTexts : OnUpdate(id, t)
StreamResolve == \E id \in DOMAIN calls : Resolve(id)
StreamReject == \E id \in DOMAIN calls : \E e \in Errors : Reject(id, e)

Select ==
  \/ \E t \in DiagramTypes : SelectDiagramType(t)
  \/ \E l \in DiagramLanguages : SelectDiagramLanguage(l)
  \/ \E l \in Llms : SelectDiagramLlm(l)
  \/ \E i \in Instructions : EditCustomInstruction(i)

Environment ==
  \/ ToggleOptions
  \/ Select
  \/ ClickStop
  \/ Unmount
  \/ StreamUpdate
  \/ StreamResolve
  \/ StreamReject

\* the dialog driven through its controls
Next ==
  \/ ClickGenerate
  \/ ClickAddToChat
  \/ Environment

Spec == Init /\ [][Next]_vars

\* --------------------------------------------- the handlers called directly
\* startGeneration() and commitResult() as operations, whatever the controls
\* show; the selections may be absent, and the generator may go away
InitHandlers ==
  /\ InitCommon
  /\ diagramType \in {None, Some("auto")}
  /\ diagramLanguage \in {None, Some("plantuml")}

InvokeGenerateNew ==
  /\ Interactive
  /\ handleGenerateNew

InvokeInsertAndClose ==
  /\ Interactive
  /\ handleInsertAndClose

\* line 65: diagramLlm is external state; the chosen generator is removed
LlmRemoved ==
  /\ Interactive
  /\ diagramLlm # None
  /\ diagramLlm' = None
  /\ lastOp' = Op("select", 0, "")
  /\ UNCHANGED << showOptions, diagramCode, diagramType, diagramLanguage, customInstruction,
                  errorMessage, abortController, calls, issued, finalized, codeLlm, store, mounted >>

NextHandlers ==
  \/ InvokeGenerateNew
  \/ InvokeInsertAndClose
  \/ LlmRemoved
  \/ Environment

SpecHandlers == InitHandlers /\ [][NextHandlers]_vars

\* ------------------------------------------ the lifecycle of a generation
\* startGeneration() called directly against a conversation with a system
\* message, the type or the generator possibly absent and chosen later; the
\* streaming service settles every call it was given
InitLifecycle ==
  /\ InitCommon
  /\ diagramType \in {None, Some("auto")}
  /\ diagramLanguage = Some("plantuml")
  /\ conversation = Some(<<"system">>)

NextLifecycle ==
  \/ InvokeGenerateNew
  \/ LlmRemoved
  \/ \E l \in Llms : SelectDiagramLlm(l)
  \/ \E t \in DiagramTypes : SelectDiagramType(t)
  \/ ClickStop
  \/ Unmount
  \/ StreamUpdate
  \/ StreamResolve
  \/ StreamReject

Settles == StreamResolve \/ StreamReject
SpecLifecycle == InitLifecycle /\ [][NextLifecycle]_vars /\ WF_vars(Settles)

\* ------------------------------------- the repair function over all texts
\* one generator, a conversation with a system message; the service streams
\* the text token by token, each delivery carrying the whole text so far
InitRepair ==
  /\ Init
  /\ diagramLlm = Some("llmA")
  /\ conversation = Some(<<"system">>)

\* the text streamed so far: every delivery here is non-empty, so it is the
\* closure's text once one was delivered
Streamed(id) == IF calls[id].local = Loading THEN <<>> ELSE calls[id].local

StreamToken ==
  \E id \in DOMAIN calls : \E tok \in Tokens :
    /\ Len(Streamed(id)) < MaxLen
    /\ OnUpdate(id, Streamed(id) \o <<tok>>)

NextRepair ==
  \/ ClickGenerate
  \/ StreamToken
  \/ StreamResolve

SpecRepair == InitRepair /\ [][NextRepair]_vars

\* ================================================================ claims

\* C1: at most one streaming call is in flight at any time, and invoking
\* handleGenerateNew while a cancel handle is set is a no-op: no call is
\* issued, and the result text, the error message and the handle are unchanged.
AtMostOneInFlight ==
  /\ [](Cardinality(InFlight) <= 1)
  /\ [][(abortController # None /\ lastOp'.op = "generate")
          => /\ issued' = issued
             /\ calls' = calls
             /\ diagramCode' = diagramCode
             /\ errorMessage' = errorMessage
             /\ abortController' = abortController]_vars

RefusedWhileGenerating ==
  /\ lastOp = Op("generate", 0, "refused")
  /\ abortController # None
  /\ Cardinality(InFlight) = 1

\* C2: the repair function is idempotent: whatever text a generation holds,
\* repairing it twice gives the same text as repairing it once.
RepairIdempotent ==
  \A id \in DOMAIN calls :
    hotFixDiagramCode(hotFixDiagramCode(calls[id].local)) = hotFixDiagramCode(calls[id].local)

\* C3: a rejection with an AbortError after the signal was aborted leaves the
\* handle cleared, the message 'Interrupted.' (not the error's own message) and
\* the result equal to the repair of the partial text.
CancellationEndsIdle ==
  [][\A id \in DOMAIN calls :
       (mounted /\ calls[id].abortCalls > 0 /\ lastOp' = Op("reject", id, "AbortError"))
         => /\ abortController' = None
            /\ errorMessage' = Some(ErrInterrupted)
            /\ errorMessage' # Some(AbortError.message)
            /\ diagramCode' = Some(hotFixDiagramCode(calls[id].local))]_vars

InterruptedWithPartial ==
  /\ mounted
  /\ lastOp.op = "reject" /\ lastOp.arg = "AbortError"
  /\ abortController = None
  /\ errorMessage = Some(ErrInterrupted)
  /\ diagramCode = Some(<<Fence, NL, "@start", "x", NL, "@enduml", NL, Fence>>)

\* C4: handleGenerateNew invoked with no generation in flight and a missing
\* type, syntax, generator or conversation, or a first message that is absent
\* or not system-role, issues no call, sets a validation message and leaves
\* the result text and the handle unchanged.
MissingInput ==
  \/ diagramType = None
  \/ diagramLanguage = None
  \/ diagramLlm = None
  \/ conversation = None
  \/ conversation[1] = <<>>
  \/ conversation[1][1] # "system"

ValidationGating ==
  [][(abortController = None /\ MissingInput /\ lastOp'.op = "generate")
       => /\ issued' = issued
          /\ calls' = calls
          /\ errorMessage' \in {Some(ErrInvalid), Some(ErrNoSystem)}
          /\ diagramCode' = diagramCode
          /\ abortController' = abortController]_vars

ValidationErrorOverResult ==
  /\ lastOp = Op("generate", 0, "invalid")
  /\ errorMessage = Some(ErrInvalid)
  /\ diagramCode = Some(<<"x">>)
  /\ issued = 1 /\ InFlight = {}

\* C5: handleInsertAndClose invoked with an empty or absent result text sets
\* the error, appends nothing to the store and does not call props.onClose.
CommitPrecondition ==
  [][(~Truthy(diagramCode) /\ lastOp'.op = "insert")
       => /\ errorMessage' = Some(ErrNothing)
          /\ appended' = appended
          /\ conversation' = conversation
          /\ closeCalls' = closeCalls]_vars

NothingToAddShown ==
  /\ lastOp = Op("insert", 0, "nothing")
  /\ errorMessage = Some(ErrNothing)
  /\ appended = <<>> /\ closeCalls = 0

\* C6: unmounting the dialog while a generation is active calls abort() on the
\* controller of the call in flight, once.
TeardownAborts ==
  [][(mounted /\ ~mounted' /\ abortController # None /\ abortController[1] \in InFlight)
       => /\ abortController[1] \in DOMAIN calls'
          /\ calls'[abortController[1]].abortCalls = calls[abortController[1]].abortCalls + 1]_vars

TornDownWhileGenerating ==
  /\ ~mounted
  /\ lastOp.op = "unmount" /\ lastOp.id # 0
  /\ lastOp.id \in InFlight
  /\ calls[lastOp.id].abortCalls = 1

\* C7: every issued call is finalized exactly once, however it settles: the
\* repaired closure text becomes the result and the handle is cleared.
FinalizedOnEveryExit ==
  /\ [](issued = finalized + Cardinality(InFlight))
  /\ []((mounted /\ abortController # None) => abortController[1] \in InFlight)
  /\ [][\A id \in DOMAIN calls :
          (id \notin DOMAIN calls')
            => /\ finalized' = finalized + 1
               /\ mounted => /\ diagramCode' = Some(hotFixDiagramCode(calls[id].local))
                             /\ abortController' = None]_vars

FinalizedAfterFailure ==
  /\ mounted
  /\ lastOp.op = "reject" /\ lastOp.arg = "Error"
  /\ issued = 3 /\ finalized = 3
  /\ abortController = None
  /\ diagramCode = Some(<<Fence, NL, "@start", "x", NL, "@enduml", NL, Fence>>)

\* C8: after a rejection that is not a cancellation the message is the
\* error's message and no result text remains.
FailureDiscardsText ==
  (mounted /\ lastOp.op = "reject" /\ lastOp.arg = "Error")
    => /\ errorMessage = Some(OtherError.message)
       /\ ~Truthy(diagramCode)

\* C9: the origin tag of every appended message names the generator whose
\* streaming call produced the committed text.
OriginNamesProducer ==
  \A i \in 1..Len(appended) : appended[i].originLLM = OriginTag(codeLlm)

\* C10: Add To Chat is enabled only with a finished, non-empty result and no
\* generation in flight; a message is appended only by handleInsertAndClose,
\* and never while a call is in flight.
CommitOnlyWhenFinished ==
  /\ []((mounted /\ ~AddToChatDisabled)
          => (Truthy(diagramCode) /\ InFlight = {} /\ finalized >= 1))
  /\ [][appended' # appended
          => /\ lastOp'.op = "insert"
             /\ Len(appended') = Len(appended) + 1
             /\ InFlight = {}
             /\ Truthy(diagramCode)
             /\ finalized >= 1]_vars

CommittedResult ==
  /\ Len(appended) = 1
  /\ lastOp = Op("insert", 0, "appended")
  /\ appended[1].text = diagramCode
  /\ InFlight = {} /\ closeCalls = 1

\* C11: the repair returns the text after three steps taken in this order:
\* (1) the whole text is put between fences iff it begins with '@start';
\* (2) every occurrence of '@endmindmap', newline, '@enduml' becomes
\* '@endmindmap'; (3) every fence, newline, fence becomes one fence.  The
\* occurrences of a step are found left to right, each after the end of the one
\* before.  '@startuml\nA->B\n@enduml' comes out between fences.
OccursAt(s, pat, i) ==
  i + Len(pat) - 1 <= Len(s) /\ \A k \in 1..Len(pat) : s[i + k - 1] = pat[k]

RECURSIVE SubstituteFrom(_, _, _, _)
SubstituteFrom(s, pat, by, i) ==
  IF i > Len(s) THEN <<>>
  ELSE IF OccursAt(s, pat, i) THEN by \o SubstituteFrom(s, pat, by, i + Len(pat))
  ELSE <<s[i]>> \o SubstituteFrom(s, pat, by, i + 1)

StepFence(t) == IF t # <<>> /\ Head(t) = "@start" THEN <<Fence, NL>> \o t \o <<NL, Fence>> ELSE t
StepMindmap(t) == SubstituteFrom(t, <<"@endmindmap", NL, "@enduml">>, <<"@endmindmap">>, 1)
StepEmptyFence(t) == SubstituteFrom(t, <<Fence, NL, Fence>>, <<Fence>>, 1)
StepsInOrder(t) == StepEmptyFence(StepMindmap(StepFence(t)))

RepairIsThreeStepsInOrder ==
  [][\A id \in DOMAIN calls :
       (mounted /\ id \notin DOMAIN calls')
         => /\ diagramCode' = Some(StepsInOrder(calls[id].local))
            /\ hotFixDiagramCode(<<"@start", "x", NL, "x", NL, "@enduml">>)
                 = <<Fence, NL, "@start", "x", NL, "x", NL, "@enduml", NL, Fence>>]_vars

\* a second attempt streams a text that all three steps change, over the
\* repaired result of the first
AllThreeStepsApplied ==
  /\ finalized = 1
  /\ \E id \in DOMAIN calls :
       /\ calls[id].local = <<"@start", "@endmindmap", NL, "@enduml", Fence>>
       /\ diagramCode = Some(calls[id].local)
       /\ hotFixDiagramCode(calls[id].local) = <<Fence, NL, "@start", "@endmindmap", Fence>>

\* C12: a delivery with non-empty text-so-far replaces the result text, one
\* with empty text leaves it as it is, and on resolution the result is the
\* repair of the last non-empty text delivered, or of the placeholder.
DeliveryReplaces ==
  [][\A id \in DOMAIN calls :
       /\ (mounted /\ lastOp' = Op("update", id, "text"))
            => (calls'[id].sent # None /\ diagramCode' = calls'[id].sent)
       /\ (mounted /\ lastOp' = Op("update", id, "empty"))
            => (diagramCode' = diagramCode /\ calls' = calls)
       /\ (mounted /\ lastOp' = Op("resolve", id, ""))
            => diagramCode' = Some(hotFixDiagramCode(
                 IF calls[id].sent = None THEN Loading ELSE calls[id].sent[1]))]_vars

ResolvedOverEarlierResult ==
  /\ mounted
  /\ lastOp.op = "resolve"
  /\ issued = 2 /\ finalized = 2
  /\ diagramCode = Some(<<"x">>)

\* C13: with a service that settles every call, a set cancel handle is
\* eventually cleared; and handleGenerateNew invoked with no handle set and
\* valid inputs, also after a validation error, a cancellation or a failure,
\* clears the message and issues a new streaming call.
LiveHandle == mounted /\ abortController # None

Recoverable ==
  /\ LiveHandle ~> ~LiveHandle
  /\ [][(abortController = None /\ ~MissingInput /\ lastOp'.op = "generate")
          => /\ issued' = issued + 1
             /\ abortController' # None /\ abortController'[1] \in DOMAIN calls'
             /\ errorMessage' = None]_vars

RestartedAfterError ==
  /\ lastOp.op = "generate" /\ lastOp.arg = "recovered"
  /\ issued = 3
  /\ LiveHandle /\ errorMessage = None

\* C14: no step of the generation lifecycle (a start, a refusal, a validation
\* error, a delivery, a resolution, a rejection, a stop, a commit, the
\* teardown) changes the type, the syntax, the generator, the custom
\* instruction or the options toggle.
generation == << diagramCode, errorMessage, abortController, calls, issued, finalized >>

LifecycleKeepsSelection ==
  [][(\/ lastOp'.op \in {"generate", "update", "resolve", "reject", "stop", "insert", "unmount"}
      \/ generation' # generation)
       => /\ diagramType' = diagramType
          /\ diagramLanguage' = diagramLanguage
          /\ diagramLlm' = diagramLlm
          /\ customInstruction' = customInstruction
          /\ showOptions' = showOptions]_vars

SelectionKeptOverCycles ==
  /\ lastOp.op = "resolve"
  /\ finalized = 2
  /\ ~showOptions
  /\ customInstruction = "as state"
  /\ diagramType = Some("mind") /\ diagramLanguage = Some("mermaid") /\ diagramLlm = Some("llmB")

\* C15: while the cancel handle is set no error message is set: a start that
\* passes validation clears the message, and no step taken while the handle
\* stays set changes it.
NoErrorWhileGenerating ==
  /\ [](abortController # None => errorMessage = None)
  /\ [][((abortController = None /\ abortController' # None) => errorMessage' = None)
        /\ ((abortController # None /\ abortController' # None)
              => errorMessage' = errorMessage)]_vars

ErrorClearedByRestart ==
  /\ lastOp.op = "generate" /\ lastOp.arg = "recovered"
  /\ issued = 2 /\ finalized = 1
  /\ abortController # None /\ errorMessage = None
  /\ mounted

\* C16: while the cancel handle is set the result text is non-empty (in the
\* mounted dialog the placeholder or the last text delivered), the progress
\* indicator is shown exactly when the options are hidden and the
\* preview exactly when they are expanded; in no state are both shown.
OneOfProgressAndPreview ==
  /\ abortController # None
       => /\ Truthy(diagramCode)
          /\ mounted => \/ diagramCode = Some(Loading)
                         \/ calls[abortController[1]].sent = diagramCode
          /\ ShowsProgress # ShowsPreview
          /\ ShowsProgress = ~showOptions
          /\ ShowsPreview = showOptions
  /\ ~(ShowsProgress /\ ShowsPreview)

PreviewWhileGenerating ==
  /\ mounted /\ closeCalls = 0
  /\ abortController # None
  /\ showOptions
  /\ lastOp.op = "update" /\ lastOp.arg = "text"
  /\ ShowsPreview /\ ~ShowsProgress

====
